---- MODULE Spec2Model ----
(***************************************************************************)
(* Model of src/chat.jsx: the ChatPage component's streaming exchange.     *)
(*                                                                         *)
(* Text is a sequence of units.  A unit is a run of characters that holds  *)
(* no line break, or the line break itself, so that concatenation,         *)
(* split("\n"), startsWith, slice and trim are computed on sequences.      *)
(* Code between two awaits runs to completion (one JavaScript thread), so  *)
(* each action is one such run.  State setters are applied in call order,  *)
(* and the updaters queued by one run have run when the next run starts.   *)
(* TEXT_MESSAGE_START puts the object assistantMsg itself into the         *)
(* transcript, so a later assistantMsg.content += delta shows there: the   *)
(* field live of a message names the call whose assistantMsg it is, 0 for  *)
(* an object of its own.                                                   *)
(* The fields ex and kind of a message and the variables appended, deltas, *)
(* skipped and argsLog are history information: no modelled code reads     *)
(* them.                                                                   *)
(***************************************************************************)
EXTENDS Integers, Sequences, FiniteSets, TLC

\* ---- bounds of the model -------------------------------------------------
MaxExchanges == 2
MaxReads == 2
MaxLongReads == 3
MaxFairReads == 1
MaxToolReads == 4
MaxDecoderReads == 3
MaxTicks == 1
MaxLines == 3

\* ---- text ----------------------------------------------------------------
NL == "\n"
Prefix == <<"data:", " ">>
T0 == 10

RECURSIVE Concat(_)
Concat(ss) == IF ss = <<>> THEN <<>> ELSE Head(ss) \o Concat(Tail(ss))

IsInfix(a, b) ==
  \E i \in 0..(Len(b) - Len(a)) : SubSeq(b, i + 1, i + Len(a)) = a

IsPrefixOf(a, b) == Len(a) <= Len(b) /\ SubSeq(b, 1, Len(a)) = a

\* String.prototype.trim on a text whose white space is the unit " "
RECURSIVE TrimLeft(_)
TrimLeft(s) == IF s # <<>> /\ Head(s) = " " THEN TrimLeft(Tail(s)) ELSE s

RECURSIVE TrimRight(_)
TrimRight(s) ==
  IF s # <<>> /\ s[Len(s)] = " " THEN TrimRight(SubSeq(s, 1, Len(s) - 1)) ELSE s

Trim(s) == TrimRight(TrimLeft(s))

\* ---- frame splitter: buffer.split("\n"), parts.pop() || "" --------------
RECURSIVE SplitNL(_)
SplitNL(s) ==
  IF \A i \in 1..Len(s) : s[i] # NL
  THEN <<s>>
  ELSE LET i == CHOOSE k \in 1..Len(s) :
                  s[k] = NL /\ \A j \in 1..(k - 1) : s[j] # NL
       IN  <<SubSeq(s, 1, i - 1)>> \o SplitNL(SubSeq(s, i + 1, Len(s)))

\* the parts the for loop iterates over, after parts.pop()
Parts(buf, chunk) ==
  LET all == SplitNL(buf \o chunk) IN SubSeq(all, 1, Len(all) - 1)

\* a splitter that keeps nothing between two chunks
RestDropsFragment(buf, chunk) == <<>>

\* the new pending buffer
Rest(buf, chunk) ==
  LET all == SplitNL(buf \o chunk) IN all[Len(all)]

\* ---- event decoder -------------------------------------------------------
J_RUN_STARTED == "{\"type\":\"RUN_STARTED\"}"
J_TEXT_START == "{\"type\":\"TEXT_MESSAGE_START\"}"
J_TEXT_A == "{\"type\":\"TEXT_MESSAGE_CONTENT\",\"delta\":\"a\"}"
J_TEXT_B == "{\"type\":\"TEXT_MESSAGE_CONTENT\",\"delta\":\"b\"}"
J_TEXT_END == "{\"type\":\"TEXT_MESSAGE_END\"}"
J_TOOL_START_1 == "{\"type\":\"TOOL_CALL_START\",\"toolCallId\":\"t1\",\"toolCallName\":\"search\"}"
J_TOOL_START_2 == "{\"type\":\"TOOL_CALL_START\",\"toolCallId\":\"t2\",\"toolCallName\":\"lookup\"}"
J_TOOL_ARGS_1X == "{\"type\":\"TOOL_CALL_ARGS\",\"toolCallId\":\"t1\",\"delta\":\"x\"}"
J_TOOL_ARGS_1Y == "{\"type\":\"TOOL_CALL_ARGS\",\"toolCallId\":\"t1\",\"delta\":\"y\"}"
J_TOOL_ARGS_2Y == "{\"type\":\"TOOL_CALL_ARGS\",\"toolCallId\":\"t2\",\"delta\":\"y\"}"
J_TOOL_RESULT_1R == "{\"type\":\"TOOL_CALL_RESULT\",\"toolCallId\":\"t1\",\"content\":\"r\"}"
J_TOOL_RESULT_1S == "{\"type\":\"TOOL_CALL_RESULT\",\"toolCallId\":\"t1\",\"content\":\"s\"}"
J_RUN_FINISHED == "{\"type\":\"RUN_FINISHED\"}"
J_RUN_ERROR == "{\"type\":\"RUN_ERROR\",\"message\":\"boom\"}"
J_PING == "{\"type\":\"PING\"}"
J_MALFORMED == "{\"type\":"

\* the payload texts JSON.parse accepts, with the record each one yields
Parsed ==
  J_RUN_STARTED :> [type |-> "RUN_STARTED"] @@
  J_TEXT_START :> [type |-> "TEXT_MESSAGE_START"] @@
  J_TEXT_A :> [type |-> "TEXT_MESSAGE_CONTENT", delta |-> <<"a">>] @@
  J_TEXT_B :> [type |-> "TEXT_MESSAGE_CONTENT", delta |-> <<"b">>] @@
  J_TEXT_END :> [type |-> "TEXT_MESSAGE_END"] @@
  J_TOOL_START_1 :> [type |-> "TOOL_CALL_START", toolCallId |-> "t1",
                     toolCallName |-> "search"] @@
  J_TOOL_START_2 :> [type |-> "TOOL_CALL_START", toolCallId |-> "t2",
                     toolCallName |-> "lookup"] @@
  J_TOOL_ARGS_1X :> [type |-> "TOOL_CALL_ARGS", toolCallId |-> "t1",
                     delta |-> <<"x">>] @@
  J_TOOL_ARGS_1Y :> [type |-> "TOOL_CALL_ARGS", toolCallId |-> "t1",
                     delta |-> <<"y">>] @@
  J_TOOL_ARGS_2Y :> [type |-> "TOOL_CALL_ARGS", toolCallId |-> "t2",
                     delta |-> <<"y">>] @@
  J_TOOL_RESULT_1R :> [type |-> "TOOL_CALL_RESULT", toolCallId |-> "t1",
                       content |-> <<"r">>] @@
  J_TOOL_RESULT_1S :> [type |-> "TOOL_CALL_RESULT", toolCallId |-> "t1",
                       content |-> <<"s">>] @@
  J_RUN_FINISHED :> [type |-> "RUN_FINISHED"] @@
  J_RUN_ERROR :> [type |-> "RUN_ERROR", message |-> <<"boom">>] @@
  J_PING :> [type |-> "PING"]

\* part.startsWith("data: ")
StartsWithPrefix(part) == IsPrefixOf(Prefix, part)

\* part.slice(6)
Payload(part) == SubSeq(part, Len(Prefix) + 1, Len(part))

\* JSON.parse(data) returns (TRUE) or throws (FALSE)
ParseOk(data) == Len(data) = 1 /\ data[1] \in DOMAIN Parsed

JSONparse(data) == Parsed[data[1]]

KnownTypes ==
  {"RUN_STARTED", "TEXT_MESSAGE_START", "TEXT_MESSAGE_CONTENT",
   "TEXT_MESSAGE_END", "TOOL_CALL_START", "TOOL_CALL_ARGS",
   "TOOL_CALL_RESULT", "RUN_FINISHED", "RUN_ERROR"}

\* ---- wire data a server may send ----------------------------------------
DataLine(p) == Prefix \o <<p, NL>>

\* conversation events, one complete line per chunk
TextChunks ==
  {DataLine(p) : p \in {J_RUN_STARTED, J_TEXT_START, J_TEXT_A, J_TEXT_B,
                        J_TEXT_END, J_RUN_FINISHED, J_RUN_ERROR}}

\* tool-call events, one complete line per chunk
ToolChunks ==
  {DataLine(p) : p \in {J_TOOL_START_1, J_TOOL_START_2, J_TOOL_ARGS_1X,
                        J_TOOL_ARGS_1Y, J_TOOL_ARGS_2Y, J_TOOL_RESULT_1R,
                        J_TOOL_RESULT_1S, J_RUN_FINISHED}}

\* lines the decoder skips: a payload that does not parse, an unknown type,
\* a comment line, a blank line
SkippedLines ==
  {DataLine(J_MALFORMED), DataLine(J_PING), <<": keep-alive", NL>>, <<NL>>}

\* lines that follow a skipped line
FollowingLines ==
  {DataLine(p) : p \in {J_RUN_STARTED, J_TEXT_START, J_TEXT_A, J_TOOL_START_1}}

\* a skipped line alone, a following line alone or cut before its line break,
\* and a skipped line with a following line in the same chunk
DecoderChunks ==
  SkippedLines \cup FollowingLines
    \cup {Prefix \o <<J_TEXT_A>>, Prefix \o <<J_MALFORMED>>}
    \cup {b \o l : b \in SkippedLines, l \in FollowingLines}

\* lines of a stream given to the splitter and decoder alone
StreamLines ==
  {Prefix \o <<J_TEXT_A>>, Prefix \o <<J_TEXT_B>>, Prefix \o <<J_MALFORMED>>,
   <<"data:", J_TEXT_A>>, <<": keep-alive">>, <<>>}

\* texts of at most k lines, each ended by a line break
RECURSIVE Terminated(_)
Terminated(k) ==
  IF k = 0
  THEN {<<>>}
  ELSE Terminated(k - 1)
         \cup {t \o l \o <<NL>> : t \in Terminated(k - 1), l \in StreamLines}

\* texts of at most MaxLines lines; the last line may lack its line break
Streams ==
  Terminated(MaxLines)
    \cup {t \o l : t \in Terminated(MaxLines - 1), l \in StreamLines}

\* what the user may have typed into the textarea
Inputs == {<<>>, <<" ">>, <<" ", "h", " ">>}

\* ---- state ---------------------------------------------------------------
VARIABLES
  messages,       \* useState(initialMessages)
  input,          \* useState("")
  isLoading,      \* useState(false)
  currentStatus,  \* useState("online")
  toolCalls,      \* useState([])
  now,            \* the value Date.now() returns
  started,        \* number of sendMessage calls that passed the guard
  pc,             \* per call: "idle", "fetch", "read", "returned"
  assistantMsg,   \* per call: the local assistantMsg
  messageAdded,   \* per call: the local messageAdded
  buffer,         \* per call: the local buffer
  reads,          \* chunks the streams may still deliver, all calls together
  appended,       \* history: assistant messages each call has appended
  deltas,         \* history: content deltas each call has applied
  skipped,        \* history: frames each call has decoded and not applied
  argsLog,        \* history: per tool-call id, the args deltas addressed to
                  \* it since its last start or the last clearing
  stream,         \* splitter run: the whole text of the stream
  delivered,      \* splitter run: units handed out so far
  pending,        \* splitter run: the buffer
  yielded,        \* splitter run: parts iterated so far
  decoded,        \* splitter run: events dispatched so far
  ended           \* splitter run: the read loop has left

vars == <<messages, input, isLoading, currentStatus, toolCalls, now, started,
          pc, assistantMsg, messageAdded, buffer, reads, appended, deltas,
          skipped, argsLog, stream, delivered, pending, yielded, decoded, ended>>

appVars == <<messages, input, isLoading, currentStatus, toolCalls, now,
             started, pc, assistantMsg, messageAdded, buffer, reads,
             appended, deltas, skipped, argsLog>>

splitVars == <<stream, delivered, pending, yielded, decoded, ended>>

Exchanges == 1..MaxExchanges

initialMessages ==
  <<[id |-> 1, role |-> "assistant",
     content |-> <<"Hello! I'm your IndiGo Ops Assistant. How can I help?">>,
     live |-> 0, ex |-> 0, kind |-> "greeting"]>>

NoMsg ==
  [id |-> 0, role |-> "none", content |-> <<>>, live |-> 0, ex |-> 0,
   kind |-> "none"]

ToolCallIds == {"t1", "t2"}

NoArgs == [id \in ToolCallIds |-> <<>>]

GenericFailure == <<"Sorry, an error occurred. Please try again.">>

\* ---- reducer: the cases of switch (event.type) ---------------------------
\* st is the state one call of sendMessage can touch:
\*   messages, toolCalls, currentStatus, isLoading, assistantMsg,
\*   messageAdded, appended, deltas, skipped, argsLog
OnRunStarted(st) == [st EXCEPT !.currentStatus = "processing..."]

OnTextMessageStart(st) ==
  IF ~st.messageAdded
  THEN [st EXCEPT !.currentStatus = "typing...",
                  !.messages = Append(@, st.assistantMsg),
                  !.messageAdded = TRUE,
                  !.appended = @ + 1]
  ELSE [st EXCEPT !.currentStatus = "typing..."]

OnTextMessageContent(st, event) ==
  LET am == [st.assistantMsg EXCEPT !.content = @ \o event.delta]
      \* assistantMsg.content += event.delta, seen through the transcript
      prev == [i \in 1..Len(st.messages) |->
                 IF st.messages[i].live = am.live THEN am ELSE st.messages[i]]
      lastIndex == Len(prev)
  IN  [st EXCEPT
         !.assistantMsg = am,
         !.deltas = Append(@, event.delta),
         !.messages =
           IF lastIndex >= 1 /\ prev[lastIndex].role = "assistant"
           THEN [prev EXCEPT ![lastIndex] = [am EXCEPT !.live = 0]]
           ELSE prev]

OnTextMessageEnd(st) == [st EXCEPT !.currentStatus = "online"]

\* a TOOL_CALL_START that never looks for the id
OnToolCallStartAlwaysAppends(st, event) ==
  [st EXCEPT
     !.currentStatus = "calling " \o event.toolCallName \o "...",
     !.argsLog = [@ EXCEPT ![event.toolCallId] = <<>>],
     !.toolCalls = Append(@, [id |-> event.toolCallId,
                              name |-> event.toolCallName,
                              args |-> <<>>, result |-> <<>>,
                              status |-> "calling", expanded |-> FALSE])]

OnToolCallStart(st, event) ==
  LET prev == st.toolCalls
      exists == \E i \in 1..Len(prev) : prev[i].id = event.toolCallId
      newToolCall == [id |-> event.toolCallId, name |-> event.toolCallName,
                      args |-> <<>>, result |-> <<>>, status |-> "calling",
                      expanded |-> FALSE]
  IN  [st EXCEPT
         !.currentStatus = "calling " \o event.toolCallName \o "...",
         !.argsLog = [@ EXCEPT ![event.toolCallId] = <<>>],
         !.toolCalls =
           IF exists
           THEN [i \in 1..Len(prev) |->
                   IF prev[i].id = event.toolCallId
                   THEN [prev[i] EXCEPT !.args = <<>>, !.status = "calling"]
                   ELSE prev[i]]
           ELSE Append(prev, newToolCall)]

\* a TOOL_CALL_ARGS that appends the delta to every entry
OnToolCallArgsEveryEntry(st, event) ==
  LET prev == st.toolCalls
  IN  [st EXCEPT
         !.argsLog = [@ EXCEPT ![event.toolCallId] = Append(@, event.delta)],
         !.toolCalls =
           [i \in 1..Len(prev) |->
              [prev[i] EXCEPT !.args = @ \o event.delta]]]

OnToolCallArgs(st, event) ==
  LET prev == st.toolCalls
  IN  [st EXCEPT
         !.argsLog = [@ EXCEPT ![event.toolCallId] = Append(@, event.delta)],
         !.toolCalls =
           [i \in 1..Len(prev) |->
              IF prev[i].id = event.toolCallId
              THEN [prev[i] EXCEPT !.args = @ \o event.delta]
              ELSE prev[i]]]

OnToolCallResult(st, event) ==
  LET prev == st.toolCalls
  IN  [st EXCEPT
         !.currentStatus = "processing results...",
         !.toolCalls =
           [i \in 1..Len(prev) |->
              IF prev[i].id = event.toolCallId
              THEN [prev[i] EXCEPT !.result = event.content,
                                   !.status = "completed"]
              ELSE prev[i]]]

OnRunFinished(st) ==
  [st EXCEPT !.currentStatus = "online", !.isLoading = FALSE]

\* a RUN_ERROR that appends its message whatever messageAdded says
OnRunErrorAlwaysAppends(st, event, e, t) ==
  [st EXCEPT
     !.currentStatus = "error",
     !.isLoading = FALSE,
     !.messages = Append(@, [id |-> t + 2, role |-> "assistant",
                             content |-> <<"Error: ">> \o event.message,
                             live |-> 0, ex |-> e, kind |-> "run_error"]),
     !.appended = @ + 1]

OnRunError(st, event, e, t) ==
  IF ~st.messageAdded
  THEN [st EXCEPT
          !.currentStatus = "error",
          !.isLoading = FALSE,
          !.messages = Append(@, [id |-> t + 2, role |-> "assistant",
                                  content |-> <<"Error: ">> \o event.message,
                                  live |-> 0, ex |-> e, kind |-> "run_error"]),
          !.appended = @ + 1]
  ELSE [st EXCEPT !.currentStatus = "error", !.isLoading = FALSE]

Dispatch(st, event, e, t) ==
  CASE event.type = "RUN_STARTED" -> OnRunStarted(st)
    [] event.type = "TEXT_MESSAGE_START" -> OnTextMessageStart(st)
    [] event.type = "TEXT_MESSAGE_CONTENT" -> OnTextMessageContent(st, event)
    [] event.type = "TEXT_MESSAGE_END" -> OnTextMessageEnd(st)
    [] event.type = "TOOL_CALL_START" -> OnToolCallStart(st, event)
    [] event.type = "TOOL_CALL_ARGS" -> OnToolCallArgs(st, event)
    [] event.type = "TOOL_CALL_RESULT" -> OnToolCallResult(st, event)
    [] event.type = "RUN_FINISHED" -> OnRunFinished(st)
    [] event.type = "RUN_ERROR" -> OnRunError(st, event, e, t)
    [] OTHER -> [st EXCEPT !.skipped = @ + 1]

\* the body of for (const part of parts) for one part: a part without the
\* prefix is passed over, a payload that does not parse is logged
ProcessPart(st, part, e, t) ==
  IF StartsWithPrefix(part)
  THEN IF ParseOk(Payload(part))
       THEN Dispatch(st, JSONparse(Payload(part)), e, t)
       ELSE [st EXCEPT !.skipped = @ + 1]
  ELSE st

\* the events the for loop hands to the switch, in order
RECURSIVE EventsOf(_)
EventsOf(parts) ==
  IF parts = <<>>
  THEN <<>>
  ELSE (IF StartsWithPrefix(Head(parts)) /\ ParseOk(Payload(Head(parts)))
        THEN <<JSONparse(Payload(Head(parts)))>>
        ELSE <<>>) \o EventsOf(Tail(parts))

\* a for loop that a payload which does not parse makes leave
RECURSIVE ProcessPartsStopsOnError(_, _, _, _)
ProcessPartsStopsOnError(st, parts, e, t) ==
  IF parts = <<>>
  THEN st
  ELSE IF StartsWithPrefix(Head(parts)) /\ ~ParseOk(Payload(Head(parts)))
       THEN [st EXCEPT !.skipped = @ + 1]
       ELSE ProcessPartsStopsOnError(ProcessPart(st, Head(parts), e, t),
                                     Tail(parts), e, t)

RECURSIVE ProcessParts(_, _, _, _)
ProcessParts(st, parts, e, t) ==
  IF parts = <<>>
  THEN st
  ELSE ProcessParts(ProcessPart(st, Head(parts), e, t), Tail(parts), e, t)

\* the state call e can touch, as it is now
Cur(e) ==
  [messages |-> messages, toolCalls |-> toolCalls,
   currentStatus |-> currentStatus, isLoading |-> isLoading,
   assistantMsg |-> assistantMsg[e], messageAdded |-> messageAdded[e],
   appended |-> appended[e], deltas |-> deltas[e],
   skipped |-> skipped[e], argsLog |-> argsLog]

\* write back what a run of call e left in st
Commit(st, e) ==
  /\ messages' = st.messages
  /\ toolCalls' = st.toolCalls
  /\ currentStatus' = st.currentStatus
  /\ isLoading' = st.isLoading
  /\ assistantMsg' = [assistantMsg EXCEPT ![e] = st.assistantMsg]
  /\ messageAdded' = [messageAdded EXCEPT ![e] = st.messageAdded]
  /\ appended' = [appended EXCEPT ![e] = st.appended]
  /\ deltas' = [deltas EXCEPT ![e] = st.deltas]
  /\ skipped' = [skipped EXCEPT ![e] = st.skipped]
  /\ argsLog' = st.argsLog

\* write back what call e left in st when it returns: its locals are gone,
\* and its assistantMsg is from now on an object like any other
CommitReturn(st, e) ==
  /\ messages' = [i \in 1..Len(st.messages) |->
                    IF st.messages[i].live = e
                    THEN [st.messages[i] EXCEPT !.live = 0]
                    ELSE st.messages[i]]
  /\ toolCalls' = st.toolCalls
  /\ currentStatus' = st.currentStatus
  /\ isLoading' = st.isLoading
  /\ assistantMsg' = [assistantMsg EXCEPT ![e] = NoMsg]
  /\ messageAdded' = [messageAdded EXCEPT ![e] = FALSE]
  /\ buffer' = [buffer EXCEPT ![e] = <<>>]
  /\ appended' = [appended EXCEPT ![e] = st.appended]
  /\ deltas' = [deltas EXCEPT ![e] = <<>>]
  /\ skipped' = [skipped EXCEPT ![e] = 0]
  /\ argsLog' = st.argsLog
  /\ pc' = [pc EXCEPT ![e] = "returned"]

\* catch (error) { ... }
CatchBlock(st, e, t) ==
  [st EXCEPT
     !.messages = Append(@, [id |-> t + 2, role |-> "assistant",
                             content |-> GenericFailure,
                             live |-> 0, ex |-> e, kind |-> "transport"]),
     !.appended = @ + 1,
     !.currentStatus = "error"]

\* a finally block that forgets setCurrentStatus("online")
FinallyBlockKeepsStatus(st) == [st EXCEPT !.isLoading = FALSE]

\* finally { ... }
FinallyBlock(st) ==
  [st EXCEPT !.isLoading = FALSE, !.currentStatus = "online"]

\* ---- actions -------------------------------------------------------------
AppInit(n) ==
  /\ messages = initialMessages
  /\ input = <<>>
  /\ isLoading = FALSE
  /\ currentStatus = "online"
  /\ toolCalls = <<>>
  /\ now = T0
  /\ started = 0
  /\ pc = [e \in Exchanges |-> "idle"]
  /\ assistantMsg = [e \in Exchanges |-> NoMsg]
  /\ messageAdded = [e \in Exchanges |-> FALSE]
  /\ buffer = [e \in Exchanges |-> <<>>]
  /\ reads = n
  /\ appended = [e \in Exchanges |-> 0]
  /\ deltas = [e \in Exchanges |-> <<>>]
  /\ skipped = [e \in Exchanges |-> 0]
  /\ argsLog = NoArgs

InitWith(n) ==
  /\ AppInit(n)
  /\ stream = <<>>
  /\ delivered = 0
  /\ pending = <<>>
  /\ yielded = <<>>
  /\ decoded = <<>>
  /\ ended = FALSE

Init == InitWith(MaxReads)

\* time passes
Tick ==
  /\ now < T0 + MaxTicks
  /\ now' = now + 1
  /\ UNCHANGED <<messages, input, isLoading, currentStatus, toolCalls,
                 started, pc, assistantMsg, messageAdded, buffer, reads,
                 appended, deltas, skipped, argsLog>>
  /\ UNCHANGED splitVars

\* onChange of the textarea, which is disabled while isLoading
Type(v) ==
  /\ ~isLoading
  /\ input' = v
  /\ UNCHANGED <<messages, isLoading, currentStatus, toolCalls, now, started,
                 pc, assistantMsg, messageAdded, buffer, reads, appended,
                 deltas, skipped, argsLog>>
  /\ UNCHANGED splitVars

\* a sendMessage whose guard tests input and not input.trim()
SendMessageNoTrim ==
  /\ started < MaxExchanges
  /\ IF input = <<>> \/ isLoading
     THEN UNCHANGED appVars
     ELSE LET e == started + 1
              userMsg == [id |-> now, role |-> "user", content |-> Trim(input),
                          live |-> 0, ex |-> e, kind |-> "user"]
          IN  /\ messages' = Append(messages, userMsg)
              /\ input' = <<>>
              /\ isLoading' = TRUE
              /\ currentStatus' = "thinking..."
              /\ toolCalls' = <<>>
              /\ argsLog' = NoArgs
              /\ started' = e
              /\ pc' = [pc EXCEPT ![e] = "fetch"]
              /\ UNCHANGED <<now, assistantMsg, messageAdded, buffer, reads,
                             appended, deltas, skipped>>
  /\ UNCHANGED splitVars

\* a sendMessage that sends and shows input as typed
SendMessageRawContent ==
  /\ started < MaxExchanges
  /\ IF Trim(input) = <<>> \/ isLoading
     THEN UNCHANGED appVars
     ELSE LET e == started + 1
              userMsg == [id |-> now, role |-> "user", content |-> input,
                          live |-> 0, ex |-> e, kind |-> "user"]
          IN  /\ messages' = Append(messages, userMsg)
              /\ input' = <<>>
              /\ isLoading' = TRUE
              /\ currentStatus' = "thinking..."
              /\ toolCalls' = <<>>
              /\ argsLog' = NoArgs
              /\ started' = e
              /\ pc' = [pc EXCEPT ![e] = "fetch"]
              /\ UNCHANGED <<now, assistantMsg, messageAdded, buffer, reads,
                             appended, deltas, skipped>>
  /\ UNCHANGED splitVars

\* sendMessage up to await fetch(...)
SendMessage ==
  /\ started < MaxExchanges
  /\ IF Trim(input) = <<>> \/ isLoading
     THEN UNCHANGED appVars
     ELSE LET e == started + 1
              userMsg == [id |-> now, role |-> "user", content |-> Trim(input),
                          live |-> 0, ex |-> e, kind |-> "user"]
          IN  /\ messages' = Append(messages, userMsg)
              /\ input' = <<>>
              /\ isLoading' = TRUE
              /\ currentStatus' = "thinking..."
              /\ toolCalls' = <<>>
              /\ argsLog' = NoArgs
              /\ started' = e
              /\ pc' = [pc EXCEPT ![e] = "fetch"]
              /\ UNCHANGED <<now, assistantMsg, messageAdded, buffer, reads,
                             appended, deltas, skipped>>
  /\ UNCHANGED splitVars

\* fetch resolves with an ok response that has a body; up to the first read
FetchOk(e) ==
  /\ pc[e] = "fetch"
  /\ assistantMsg' = [assistantMsg EXCEPT
                        ![e] = [id |-> now + 1, role |-> "assistant",
                                content |-> <<>>, live |-> e, ex |-> e,
                                kind |-> "slot"]]
  /\ messageAdded' = [messageAdded EXCEPT ![e] = FALSE]
  /\ buffer' = [buffer EXCEPT ![e] = <<>>]
  /\ pc' = [pc EXCEPT ![e] = "read"]
  /\ UNCHANGED <<messages, input, isLoading, currentStatus, toolCalls, now,
                 started, reads, appended, deltas, skipped, argsLog>>
  /\ UNCHANGED splitVars

\* fetch rejects, or the response is not ok or has no body: catch, finally
FetchFail(e) ==
  /\ pc[e] = "fetch"
  /\ CommitReturn(FinallyBlock(CatchBlock(Cur(e), e, now)), e)
  /\ UNCHANGED <<input, now, started, reads>>
  /\ UNCHANGED splitVars

\* what one turn of the while loop on a chunk leaves of the state call e can
\* touch
AfterChunk(e, chunk) ==
  ProcessParts(Cur(e), Parts(buffer[e], chunk), e, now)

\* reader.read() resolves with a chunk: one turn of the while loop
Read(e, chunk) ==
  /\ pc[e] = "read"
  /\ reads > 0
  /\ reads' = reads - 1
  /\ buffer' = [buffer EXCEPT ![e] = Rest(buffer[e], chunk)]
  /\ Commit(AfterChunk(e, chunk), e)
  /\ UNCHANGED <<input, now, started, pc>>
  /\ UNCHANGED splitVars

\* reader.read() resolves with done: break, finally
ReadDone(e) ==
  /\ pc[e] = "read"
  /\ CommitReturn(FinallyBlock(Cur(e)), e)
  /\ UNCHANGED <<input, now, started, reads>>
  /\ UNCHANGED splitVars

\* reader.read() rejects: catch, finally
ReadThrows(e) ==
  /\ pc[e] = "read"
  /\ CommitReturn(FinallyBlock(CatchBlock(Cur(e), e, now)), e)
  /\ UNCHANGED <<input, now, started, reads>>
  /\ UNCHANGED splitVars

\* a New Chat that forgets setToolCalls([])
NewChatKeepsToolCalls ==
  /\ messages' = initialMessages
  /\ currentStatus' = "online"
  /\ UNCHANGED <<toolCalls, argsLog, input, isLoading, now, started, pc, assistantMsg,
                 messageAdded, buffer, reads, appended, deltas, skipped>>
  /\ UNCHANGED splitVars

\* onClick of "New Chat"
NewChat ==
  /\ messages' = initialMessages
  /\ toolCalls' = <<>>
  /\ currentStatus' = "online"
  /\ argsLog' = NoArgs
  /\ UNCHANGED <<input, isLoading, now, started, pc, assistantMsg,
                 messageAdded, buffer, reads, appended, deltas, skipped>>
  /\ UNCHANGED splitVars

\* ---- the read loop alone, on a given stream -----------------------------
SplitInit ==
  /\ AppInit(0)
  /\ stream \in Streams
  /\ delivered = 0
  /\ pending = <<>>
  /\ yielded = <<>>
  /\ decoded = <<>>
  /\ ended = FALSE

\* reader.read() resolves with the next n units of the stream
SplitRead(n) ==
  /\ ~ended
  /\ delivered + n <= Len(stream)
  /\ LET chunk == SubSeq(stream, delivered + 1, delivered + n)
     IN  /\ yielded' = yielded \o Parts(pending, chunk)
         /\ decoded' = decoded \o EventsOf(Parts(pending, chunk))
         /\ pending' = Rest(pending, chunk)
  /\ delivered' = delivered + n
  /\ UNCHANGED <<stream, ended>>
  /\ UNCHANGED appVars

\* reader.read() resolves with done: break
SplitDone ==
  /\ ~ended
  /\ delivered = Len(stream)
  /\ ended' = TRUE
  /\ UNCHANGED <<stream, delivered, pending, yielded, decoded>>
  /\ UNCHANGED appVars

SplitNext ==
  \/ \E n \in 1..Len(stream) : SplitRead(n)
  \/ SplitDone

SplitSpec == SplitInit /\ [][SplitNext]_vars

\* every step but the delivery of a chunk
Other ==
  \/ \E v \in Inputs : Type(v)
  \/ SendMessage
  \/ \E e \in Exchanges : FetchOk(e)
  \/ \E e \in Exchanges : FetchFail(e)
  \/ \E e \in Exchanges : ReadDone(e)
  \/ \E e \in Exchanges : ReadThrows(e)
  \/ NewChat

\* streams of conversation events
Next ==
  \/ Other
  \/ \E e \in Exchanges, chunk \in TextChunks : Read(e, chunk)

Spec == Init /\ [][Next]_vars

\* the same, with longer streams
LongInit == InitWith(MaxLongReads)

LongSpec == LongInit /\ [][Next]_vars

\* the same, with a clock that advances
ClockNext == Next \/ Tick

ClockSpec == Init /\ [][ClockNext]_vars

\* the same, where every fetch settles and every stream ends
FairInit == InitWith(MaxFairReads)

FairSpec ==
  /\ FairInit
  /\ [][Next]_vars
  /\ \A e \in Exchanges : WF_vars(FetchOk(e) \/ FetchFail(e))
  /\ \A e \in Exchanges : WF_vars(ReadDone(e) \/ ReadThrows(e))

\* streams of tool-call events
ToolNext ==
  \/ Other
  \/ \E e \in Exchanges, chunk \in ToolChunks : Read(e, chunk)

ToolInit == InitWith(MaxToolReads)

ToolSpec == ToolInit /\ [][ToolNext]_vars

\* streams with lines the decoder skips
DecoderNext ==
  \/ Other
  \/ \E e \in Exchanges, chunk \in DecoderChunks : Read(e, chunk)

DecoderInit == InitWith(MaxDecoderReads)

DecoderSpec == DecoderInit /\ [][DecoderNext]_vars

\* ==== claims =============================================================

\* call e has passed the guard of sendMessage and has not returned
InFlight(e) == pc[e] \in {"fetch", "read"}

\* call e takes a chunk in this step
Reads(e) == pc[e] = "read" /\ reads' = reads - 1

\* call e returns in this step
Returns(e) == pc[e] # "returned" /\ pc'[e] = "returned"

\* C1: while a call of sendMessage has not left its read loop, sendMessage
\* with a non-empty prompt is a no-op: no user message is appended, no second
\* request is opened and the tool-call registry is not cleared.
C1_OneExchangeInFlight ==
  [][((\E e \in Exchanges : InFlight(e)) /\ Trim(input) # <<>> /\ SendMessage)
       => UNCHANGED <<messages, toolCalls, started, pc>>]_vars

\* C2: on a transport failure the generic failure message is appended if and
\* only if the call has appended no assistant message before.
C2_FailureMessageOnlyIfNone ==
  [][\A e \in Exchanges :
       (FetchFail(e) \/ ReadThrows(e)) =>
         IF appended[e] = 0
         THEN /\ Len(messages') = Len(messages) + 1
              /\ SubSeq(messages', 1, Len(messages)) = messages
              /\ messages'[Len(messages')].content = GenericFailure
         ELSE messages' = messages]_vars

\* C3: when a call of sendMessage returns, whatever the outcome, isLoading is
\* false and currentStatus is "online"; and every call that has passed the
\* guard leads to such a state once its fetch settles and its stream ends.
C3_ReturnsIdle ==
  /\ [][\A e \in Exchanges :
          Returns(e) => (isLoading' = FALSE /\ currentStatus' = "online")]_vars
  /\ \A e \in Exchanges :
       InFlight(e) ~> (isLoading = FALSE /\ currentStatus = "online")

\* a call has returned after a RUN_ERROR event and after a transport failure
C3_Witness ==
  /\ \E e \in Exchanges : pc[e] = "returned" /\ appended[e] = 2
  /\ \E i \in 1..Len(messages) : messages[i].kind = "run_error"
  /\ messages[Len(messages)].kind = "transport"
  /\ isLoading = FALSE
  /\ currentStatus = "online"

\* C4: while call e reads its stream, its assistant message in the
\* transcript holds the concatenation of the content deltas e has applied.
C4_ContentIsConcatenation ==
  \A e \in Exchanges :
    pc[e] = "read" =>
      \A i \in 1..Len(messages) :
        (messages[i].ex = e /\ messages[i].kind = "slot")
          => messages[i].content = Concat(deltas[e])

\* the transcript after one message m was appended to it
AppendedOne(old, new) ==
  /\ Len(new) = Len(old) + 1
  /\ SubSeq(new, 1, Len(old)) = old

\* C5: a RUN_ERROR event sets the status to "error"; if the call has appended
\* no assistant message it appends exactly one, whose content holds the error
\* text; after TEXT_MESSAGE_START it leaves the transcript as it is.
C5_RunErrorMessage ==
  [][\A e \in Exchanges :
       (Reads(e) /\ buffer[e] = <<>> /\ Read(e, DataLine(J_RUN_ERROR))) =>
         /\ currentStatus' = "error"
         /\ appended[e] = 0 =>
              /\ AppendedOne(messages, messages')
              /\ messages'[Len(messages')].role = "assistant"
              /\ IsInfix(Parsed[J_RUN_ERROR].message,
                         messages'[Len(messages')].content)
         /\ messageAdded[e] => messages' = messages]_vars

\* RUN_ERROR has been applied after TEXT_MESSAGE_START: one message only
C5_Witness ==
  \E e \in Exchanges :
    /\ pc[e] = "read"
    /\ messageAdded[e]
    /\ appended[e] = 1
    /\ currentStatus = "error"
    /\ messages[Len(messages)].kind = "slot"

\* positions of the line breaks of a text
Breaks(t) == {i \in 1..Len(t) : t[i] = NL}

\* position of the k-th line break of a text, 0 for k = 0
BreakAt(t, k) ==
  IF k = 0
  THEN 0
  ELSE CHOOSE i \in Breaks(t) : Cardinality({j \in Breaks(t) : j <= i}) = k

\* the lines of a text that are ended by a line break
CompleteLines(t) ==
  [k \in 1..Cardinality(Breaks(t)) |->
     SubSeq(t, BreakAt(t, k - 1) + 1, BreakAt(t, k) - 1)]

\* what follows the last line break of a text
Fragment(t) == SubSeq(t, BreakAt(t, Cardinality(Breaks(t))) + 1, Len(t))

\* C6: however the text delivered so far was cut into chunks, the parts
\* yielded are its complete lines and the buffer is what follows its last
\* line break.
C6_ChunkBoundaryIndependence ==
  LET t == SubSeq(stream, 1, delivered)
  IN  /\ yielded = CompleteLines(t)
      /\ pending = Fragment(t)

\* a line is held in the buffer while the rest of it has not arrived
C6_Witness ==
  /\ Len(yielded) >= 1
  /\ pending # <<>>
  /\ delivered < Len(stream)
  /\ stream[delivered + 1] # NL

\* C7: when the stream has signalled completion, the events dispatched are
\* those of every line of the stream that starts with the prefix and parses,
\* the last line included when no line break ends it, once each and in order.
C7_NoDataDropped ==
  ended =>
    decoded = EventsOf(CompleteLines(stream) \o <<Fragment(stream)>>)

\* C8: the ids of the registry are pairwise distinct; TOOL_CALL_START for an
\* id of the registry resets the args and the status of its entry and leaves
\* the length and the other entries; for another id it appends one entry with
\* empty args, empty result and status "calling".
C8_ToolCallIdsUnique ==
  /\ \A i, j \in 1..Len(toolCalls) :
       toolCalls[i].id = toolCalls[j].id => i = j
  /\ \A e \in Exchanges : \A p \in {J_TOOL_START_1, J_TOOL_START_2} :
       (pc[e] = "read" /\ buffer[e] = <<>>) =>
         LET after == AfterChunk(e, DataLine(p)).toolCalls
         IN  IF \E i \in 1..Len(toolCalls) :
                  toolCalls[i].id = Parsed[p].toolCallId
             THEN /\ Len(after) = Len(toolCalls)
                  /\ \A i \in 1..Len(toolCalls) :
                       after[i] =
                         IF toolCalls[i].id = Parsed[p].toolCallId
                         THEN [toolCalls[i] EXCEPT !.args = <<>>,
                                                   !.status = "calling"]
                         ELSE toolCalls[i]
             ELSE /\ AppendedOne(toolCalls, after)
                  /\ after[Len(after)].id = Parsed[p].toolCallId
                  /\ after[Len(after)].args = <<>>
                  /\ after[Len(after)].result = <<>>
                  /\ after[Len(after)].status = "calling"

\* an entry that had a result was started again, next to another entry
C8_Witness ==
  /\ Len(toolCalls) = 2
  /\ \E i \in 1..Len(toolCalls) :
       /\ toolCalls[i].result # <<>>
       /\ toolCalls[i].args = <<>>
       /\ toolCalls[i].status = "calling"

\* C9: the args of every entry of the registry are the concatenation, in
\* order, of the deltas addressed to its id since its last start.
C9_ArgsPerId ==
  \A i \in 1..Len(toolCalls) :
    toolCalls[i].args = Concat(argsLog[toolCalls[i].id])

\* two entries that both received args deltas
C9_Witness ==
  /\ Len(toolCalls) = 2
  /\ \E i, j \in 1..Len(toolCalls) :
       /\ toolCalls[i].id = "t1" /\ toolCalls[i].args = <<"x">>
       /\ toolCalls[j].id = "t2" /\ toolCalls[j].args = <<"y">>

\* a part the decoder takes up and does not apply
IsSkipped(part) ==
  /\ StartsWithPrefix(part)
  /\ \/ ~ParseOk(Payload(part))
     \/ JSONparse(Payload(part)).type \notin KnownTypes

\* a part the decoder takes up and applies
IsApplied(part) ==
  /\ StartsWithPrefix(part)
  /\ ParseOk(Payload(part))
  /\ JSONparse(Payload(part)).type \in KnownTypes

\* C10: a chunk whose frames all fail to parse or have an unknown type leaves
\* transcript, registry, status and isLoading; a frame that follows such a
\* frame is applied as if it had come alone; and no chunk ends the call.
C10_SkippedFramesHarmless ==
  /\ [](\A e \in Exchanges : \A c \in DecoderChunks :
          pc[e] = "read" =>
            LET parts == Parts(buffer[e], c)
                after == AfterChunk(e, c)
            IN  /\ (/\ parts # <<>>
                    /\ \A k \in 1..Len(parts) : IsSkipped(parts[k]))
                     => /\ after.messages = messages
                        /\ after.toolCalls = toolCalls
                        /\ after.currentStatus = currentStatus
                        /\ after.isLoading = isLoading
                /\ (/\ Len(parts) = 2
                    /\ IsSkipped(parts[1])
                    /\ IsApplied(parts[2]))
                     => LET alone == Dispatch(Cur(e),
                                              JSONparse(Payload(parts[2])),
                                              e, now)
                        IN  /\ after.messages = alone.messages
                            /\ after.toolCalls = alone.toolCalls
                            /\ after.currentStatus = alone.currentStatus
                            /\ after.isLoading = alone.isLoading)
  /\ [][\A e \in Exchanges : Reads(e) => pc'[e] = "read"]_vars

\* two frames were skipped and the frames that followed them were applied
C10_Witness ==
  \E e \in Exchanges :
    /\ pc[e] = "read"
    /\ skipped[e] = 2
    /\ messageAdded[e]
    /\ messages[Len(messages)].kind = "slot"
    /\ messages[Len(messages)].content = <<"a">>

\* C11: sendMessage with an input that is empty or holds white space only
\* appends no user message, opens no request and leaves the transcript, the
\* registry, the status and isLoading as they are.
C11_BlankInputNoOp ==
  [][(Trim(input) = <<>> /\ SendMessage)
       => UNCHANGED <<messages, toolCalls, currentStatus, isLoading, started,
                      pc>>]_vars

\* Enter can be pressed on white space, after an exchange, with nothing
\* loading
C11_Witness ==
  /\ input = <<" ">>
  /\ ~isLoading
  /\ started >= 1
  /\ Len(messages) >= 2

\* the state New Chat sets
IsReset ==
  /\ messages = initialMessages
  /\ toolCalls = <<>>
  /\ currentStatus = "online"

\* C12: New Chat leaves the transcript at the greeting alone, the registry
\* empty and the status "online"; a second New Chat changes nothing of the
\* program's state.
C12_ResetRestores ==
  [][NewChat =>
       /\ messages' = initialMessages
       /\ toolCalls' = <<>>
       /\ currentStatus' = "online"
       /\ IsReset =>
            UNCHANGED <<messages, input, isLoading, currentStatus, toolCalls,
                        now, started, pc, assistantMsg, messageAdded,
                        buffer>>]_vars

\* New Chat was clicked while a stream that has delivered a chunk is open
C12_Witness ==
  /\ IsReset
  /\ \E e \in Exchanges : pc[e] = "read" /\ reads < MaxToolReads
  /\ isLoading

\* C13: an accepted sendMessage appends one user message that holds the
\* trimmed prompt, leaves the messages before it, empties the registry and
\* only then opens the request; no step but New Chat removes or changes a
\* user message.
C13_UserMessageStays ==
  /\ [][(Trim(input) # <<>> /\ ~isLoading /\ SendMessage) =>
          /\ AppendedOne(messages, messages')
          /\ messages'[Len(messages')].role = "user"
          /\ messages'[Len(messages')].content = Trim(input)
          /\ toolCalls' = <<>>
          /\ started' = started + 1
          /\ pc[started'] = "idle"
          /\ pc'[started'] = "fetch"]_vars
  /\ [][~NewChat =>
          \A i \in 1..Len(messages) :
            messages[i].role = "user" =>
              (i <= Len(messages') /\ messages'[i] = messages[i])]_vars

\* the prompt " h " is in the transcript as "h" after a RUN_ERROR event and a
\* transport failure
C13_Witness ==
  /\ Len(messages) = 4
  /\ messages[2].role = "user"
  /\ messages[2].content = <<"h">>
  /\ messages[3].kind = "run_error"
  /\ messages[4].kind = "transport"
  /\ pc[1] = "returned"

\* C14: RUN_FINISHED ends the exchange: the step that applies it ends the
\* call, and no chunk that follows it on the stream changes the transcript,
\* the registry or the status.
C14_RunFinishedTerminal ==
  /\ [][\A e \in Exchanges :
          (Reads(e) /\ buffer[e] = <<>> /\ Read(e, DataLine(J_RUN_FINISHED)))
            => pc'[e] = "returned"]_vars
  /\ [](\A e \in Exchanges :
          (pc[e] = "read" /\ buffer[e] = <<>>) =>
            LET fin == AfterChunk(e, DataLine(J_RUN_FINISHED))
            IN  \A c \in TextChunks :
                  LET later == ProcessParts(fin, Parts(<<>>, c), e, now)
                  IN  /\ later.messages = fin.messages
                      /\ later.toolCalls = fin.toolCalls
                      /\ later.currentStatus = fin.currentStatus)

\* C15: a TEXT_MESSAGE_CONTENT event of a call that has applied no
\* TEXT_MESSAGE_START appends an assistant message to the transcript, and the
\* delta is in its content.
C15_CreateOnFirstDelta ==
  [][\A e \in Exchanges :
       (Reads(e) /\ buffer[e] = <<>> /\ ~messageAdded[e]
          /\ Read(e, DataLine(J_TEXT_A))) =>
         /\ AppendedOne(messages, messages')
         /\ messages'[Len(messages')].role = "assistant"
         /\ IsInfix(Parsed[J_TEXT_A].delta,
                    messages'[Len(messages')].content)]_vars

\* the last assistant message of the transcript, 0 if there is none
LastAssistant(ms) ==
  IF \E i \in 1..Len(ms) : ms[i].role = "assistant"
  THEN CHOOSE i \in 1..Len(ms) :
         /\ ms[i].role = "assistant"
         /\ \A j \in (i + 1)..Len(ms) : ms[j].role # "assistant"
  ELSE 0

\* C16: in every step but New Chat the transcript keeps its length or grows,
\* and every message keeps its place, its id, its role and its content; only
\* the last assistant message, while the call that appended it reads its
\* stream, may get a content that extends the old one.
C16_MessagesImmutable ==
  [][~NewChat =>
       /\ Len(messages') >= Len(messages)
       /\ \A i \in 1..Len(messages) :
            /\ messages'[i].id = messages[i].id
            /\ messages'[i].role = messages[i].role
            /\ \/ messages'[i].content = messages[i].content
               \/ /\ i = LastAssistant(messages)
                  /\ messages[i].ex \in Exchanges
                  /\ pc[messages[i].ex] = "read"
                  /\ IsPrefixOf(messages[i].content,
                                messages'[i].content)]_vars

\* C17: while a stream is read, an entry of the registry that has a result
\* keeps it as long as the entry is there.
C17_ResultSetOnce ==
  [][\A e \in Exchanges :
       Reads(e) =>
         \A i \in 1..Len(toolCalls) :
           toolCalls[i].result # <<>> =>
             /\ i <= Len(toolCalls')
             /\ toolCalls'[i].id = toolCalls[i].id
             /\ toolCalls'[i].result = toolCalls[i].result]_vars

\* C18: the ids of the messages of the transcript are pairwise distinct.
C18_MessageIdsUnique ==
  \A i, j \in 1..Len(messages) : messages[i].id = messages[j].id => i = j

\* C19: a call of sendMessage appends at most one assistant message, counting
\* TEXT_MESSAGE_START, RUN_ERROR and the catch block.
C19_OneAssistantMessage ==
  \A e \in Exchanges : appended[e] <= 1

\* C20: the first message of the transcript is the greeting.
C20_GreetingFirst ==
  /\ Len(messages) >= 1
  /\ messages[1].id = initialMessages[1].id
  /\ messages[1].role = initialMessages[1].role
  /\ messages[1].content = initialMessages[1].content

====
